---- MODULE Spec2Model ----
(***************************************************************************)
(* A model of the hbstools C triggers: FOCuS (poissonfocus.c), FOCuS-SES   *)
(* (poissonfocusses.c) and the multi-detector manager BFT (bft.c).         *)
(*                                                                         *)
(* Number representation.                                                  *)
(*   - counts (count_t, int64_t) are integers;                             *)
(*   - background rates (double) are exact rationals [n, d], d > 0, kept   *)
(*     in lowest terms, so that equalities and sign tests are exact;       *)
(*   - log-likelihood ratios (double) are fixed-point integers with        *)
(*     LSCALE units per 1.0; log() is computed by range reduction and the  *)
(*     atanh series, sqrt() by Newton's iteration; NaN is a value of its   *)
(*     own on which every comparison is false.                             *)
(***************************************************************************)
EXTENDS Integers, Sequences, FiniteSets, TLC

VARIABLES
    api,    \* which entry point the caller drives
    f,      \* struct pf        (bare FOCuS instance)
    s,      \* struct pfs       (FOCuS-SES instance)
    bft,    \* struct bft       (multi-detector manager)
    call,   \* the last call made: its arguments and what it handed back
    drv     \* the locals of an offline driver (*_interface)

vars == <<api, f, s, bft, call, drv>>

(***************************************************************************)
(* Bounds of the model.                                                    *)
(***************************************************************************)
MaxSteps == 5
MaxCount == 1
MaxM == 2
MaxSleep == 1
MaxBftSteps == 4
MaxLen == 4
MaxZerosM == 5
MaxZerosLen == 20
MaxPairSteps == 4
MaxLongSteps == 175
MaxInits == 2
MaxFailAt == 25

(***************************************************************************)
(* Program constants.                                                      *)
(***************************************************************************)
PF_MAXCURVES == 64
DETECTORS_NUMBER == 4
STACK_LEN == PF_MAXCURVES + 1
BITARRAY_BYTE_SIZE == (DETECTORS_NUMBER + 7) \div 8

\* INT64_MAX in the source. The model's counts stay far below it; every
\* product that involves it is decided by the signs of its factors first
\* (see MulGT), so only its being larger than any sum of counts matters.
COUNT_MAX == 1000000000

\* size_t arithmetic wraps; the model keeps the wrap at a narrower width.
SIZE_MOD == 2 ^ 30

(***************************************************************************)
(* Doubles: rationals.                                                     *)
(***************************************************************************)
Abs(a) == IF a < 0 THEN -a ELSE a

Sgn(a) == IF a < 0 THEN -1 ELSE IF a = 0 THEN 0 ELSE 1

RECURSIVE GCD(_, _)
GCD(a, b) == IF b = 0 THEN a ELSE GCD(b, a % b)

Reduce(n, d, g) == [n |-> n \div g, d |-> d \div g]

Rat(n, d) == Reduce(n, d, GCD(Abs(n), d))

RI(k) == [n |-> k, d |-> 1]

\* the doubles that are no rationals: +inf is 1/0, -inf is -1/0, NaN is 0/0
INFINITY == [n |-> 1, d |-> 0]

RNaN == [n |-> 0, d |-> 0]

RNeg(a) == [n |-> -a.n, d |-> a.d]

\* a + b where a or b is an infinity or NaN: inf + (-inf) and NaN + b are
\* NaN, else the sum is the infinite operand
RAddInf(a, b) ==
    IF a = RNaN \/ b = RNaN \/ (a.d = 0 /\ b.d = 0 /\ a # b)
    THEN RNaN
    ELSE IF a.d = 0 THEN a ELSE b

RAdd(a, b) ==
    IF a.d = 0 \/ b.d = 0
    THEN RAddInf(a, b)
    ELSE Rat(a.n * b.d + b.n * a.d, a.d * b.d)

RSub(a, b) ==
    IF a.d = 0 \/ b.d = 0
    THEN RAddInf(a, RNeg(b))
    ELSE Rat(a.n * b.d - b.n * a.d, a.d * b.d)

RMul(a, b) == Rat(a.n * b.n, a.d * b.d)

\* sl > sr when the signs of the two sides differ, else the products compared
SignThenProduct(sl, sr, a1, a2, a3, b1, b2, b3) ==
    IF sl # sr THEN sl > sr ELSE a1 * a2 * a3 > b1 * b2 * b3

\* a1 * a2 * a3 > b1 * b2 * b3, decided by the signs of the factors when
\* the two sides differ in sign (no product is formed then)
MulGT(a1, a2, a3, b1, b2, b3) ==
    SignThenProduct(Sgn(a1) * Sgn(a2) * Sgn(a3), Sgn(b1) * Sgn(b2) * Sgn(b3),
                    a1, a2, a3, b1, b2, b3)

(***************************************************************************)
(* Doubles: fixed-point log-likelihood ratios, log and sqrt.               *)
(***************************************************************************)
LSCALE == 1000
LN2 == 693
NaN == -(2 ^ 30)

DAdd(a, b) == IF a = NaN \/ b = NaN THEN NaN ELSE a + b

DSub(a, b) == IF a = NaN \/ b = NaN THEN NaN ELSE a - b

DMul(k, a) == IF a = NaN THEN NaN ELSE k * a

DGe(a, b) == a # NaN /\ b # NaN /\ a >= b

DGt(a, b) == a # NaN /\ b # NaN /\ a > b

\* 2 * atanh(z), z and z2 = z * z in fixed point
Atanh2(z, z2) ==
    2 * (z + ((z * z2) \div LSCALE) \div 3
           + ((((z * z2) \div LSCALE) * z2) \div LSCALE) \div 5)

\* LSCALE * ln(p / q) for p >= q > 0
RECURSIVE LnR(_, _)
LnR(p, q) ==
    IF p >= 2 * q
    THEN LN2 + LnR(p, 2 * q)
    ELSE Atanh2((LSCALE * (p - q)) \div (p + q),
                (((LSCALE * (p - q)) \div (p + q))
                    * ((LSCALE * (p - q)) \div (p + q))) \div LSCALE)

\* LSCALE * log(r) of a positive rational r
Log(r) == IF r.n >= r.d THEN LnR(r.n, r.d) ELSE -LnR(r.d, r.n)

RECURSIVE SqrtIter(_, _)
SqrtIter(n, r) ==
    IF (r + n \div r) \div 2 >= r THEN r ELSE SqrtIter(n, (r + n \div r) \div 2)

\* LSCALE * sqrt(v / LSCALE) of a fixed-point v
Sqrt(v) ==
    IF v = NaN \/ v < 0 THEN NaN
    ELSE IF v = 0 THEN 0 ELSE SqrtIter(v * LSCALE, v * LSCALE)

(***************************************************************************)
(* poissonfocus.c: curves and the curve stack.                             *)
(***************************************************************************)
PF_NO_ERRORS == "PF_NO_ERRORS"
PF_ERROR_INVALID_ALLOCATION == "PF_ERROR_INVALID_ALLOCATION"
PF_ERROR_INVALID_INPUT == "PF_ERROR_INVALID_INPUT"

NULL_CURVE == [x |-> 0, b |-> RI(0), t |-> 0, m |-> 0]

TAIL_CURVE == [x |-> COUNT_MAX, b |-> RI(0), t |-> 0, m |-> 0]

\* The buffer of STACK_LEN curves is kept as the map of the slots written
\* so far; a slot nothing was written to holds whatever malloc handed back,
\* which reads as UNWRITTEN.
UNWRITTEN == [x |-> 0, b |-> RI(0), t |-> -1, m |-> 0]

slot(st, i) == IF i \in DOMAIN st.arr THEN st.arr[i] ELSE UNWRITTEN

write(arr, i, q) ==
    [j \in (DOMAIN arr) \cup {i} |-> IF j = i THEN q ELSE arr[j]]

stack_init_helper(capacity) ==
    [head |-> 0, tail |-> 0, capacity |-> capacity,
     arr |-> [i \in {} |-> UNWRITTEN]]

stack_init == stack_init_helper(PF_MAXCURVES)

stack_empty(st) == st.head = st.tail

\* stack_full without the case of the head at the last slot
stack_full_no_wrap(st) == st.head + 1 = st.tail

stack_full(st) ==
    IF st.head = st.capacity THEN st.tail = 0 ELSE st.head + 1 = st.tail

\* stack_push's first half without the write of TAIL_CURVE
stack_make_room_no_tail(st, tl) ==
    IF stack_full(st) THEN [st EXCEPT !.tail = tl] ELSE st

\* the first half of stack_push: on a full stack the tail moves up one slot
\* and that slot is overwritten with TAIL_CURVE
stack_make_room(st, tl) ==
    IF stack_full(st)
    THEN [st EXCEPT !.tail = tl, !.arr = write(st.arr, tl, TAIL_CURVE)]
    ELSE st

\* the second half of stack_push: the curve is written at the head
stack_put(st, q) ==
    [st EXCEPT !.arr = write(st.arr, st.head, q),
               !.head = IF st.head = st.capacity THEN 0 ELSE st.head + 1]

stack_push(st, q) ==
    stack_put(
        stack_make_room(st, IF st.tail = st.capacity THEN 0 ELSE st.tail + 1),
        q)

\* the stack after the pop; the popped curve is the slot at its new head
stack_pop(st) ==
    [st EXCEPT !.head = IF st.head = 0 THEN st.capacity ELSE st.head - 1]

\* the slot stack_peek points to
stack_peek(st) == IF st.head = 0 THEN st.capacity - 1 ELSE st.head - 1

\* the slot above slot i of the buffer
Above(st, i) == IF i = st.capacity THEN 0 ELSE i + 1

\* stack_reset that leaves the stack as it is
stack_reset_none(st) == st

stack_reset(st) == [st EXCEPT !.head = 0, !.tail = 0]

\* x * log(x / b) - (x - b); NaN where log has no value or 0 * inf arises
curve_max_of(x, b) ==
    IF x <= 0 \/ b.n <= 0
    THEN NaN
    ELSE x * Log(Rat(x * b.d, b.n)) - (LSCALE * (x * b.d - b.n)) \div b.d

curve_max(c, acc) == curve_max_of(acc.x - c.x, RSub(acc.b, c.b))

\* the product x * r of a count and a double that is an infinity or NaN:
\* "nan" for 0 * inf and x * NaN, else the signed infinity; "fin" when r
\* is finite
inf_product(x, r) ==
    IF r.d # 0 THEN "fin"
    ELSE IF r.n = 0 \/ x = 0 THEN "nan"
    ELSE IF Sgn(x) * Sgn(r.n) > 0 THEN "+inf" ELSE "-inf"

\* l - r > 0 where l or r is an infinity or NaN
inf_difference_positive(l, r) ==
    /\ l # "nan"
    /\ r # "nan"
    /\ \/ l = "+inf" /\ r # "+inf"
       \/ l = "fin" /\ r = "-inf"

\* p_x * q_b - q_x * p_b > 0
curve_dominate_of(p_x, p_b, q_x, q_b) ==
    IF p_b.d = 0 \/ q_b.d = 0
    THEN IF inf_difference_positive(inf_product(p_x, q_b),
                                    inf_product(q_x, p_b))
         THEN 1 ELSE -1
    ELSE IF MulGT(p_x, q_b.n, p_b.d, q_x, p_b.n, q_b.d) THEN 1 ELSE -1

curve_dominate(p, q, acc) ==
    curve_dominate_of(acc.x - p.x, RSub(acc.b, p.b),
                      acc.x - q.x, RSub(acc.b, q.b))

(***************************************************************************)
(* poissonfocus.c: struct pf and its operations.                           *)
(***************************************************************************)
NO_CHANGE == [significance_llr |-> 0, offset |-> 0]

pf_check_init_parameters(threshold_std, mu_min) ==
    IF threshold_std.n <= 0 \/ mu_min < 1
    THEN PF_ERROR_INVALID_INPUT
    ELSE PF_NO_ERRORS

pf_init_helper(curves, threshold_std, mu_min) ==
    [status |-> [code |-> "TEST", latest_error |-> PF_NO_ERRORS],
     curves |-> stack_push(stack_push(curves, TAIL_CURVE), NULL_CURVE),
     change |-> NO_CHANGE,
     threshold_llr |-> (LSCALE * threshold_std.n * threshold_std.n)
                          \div (2 * threshold_std.d * threshold_std.d),
     mu_crit |-> IF mu_min = 1
                 THEN RI(1)
                 ELSE Rat(LSCALE * (mu_min - 1), Log(RI(mu_min)))]

pf_init(threshold_std, mu_min) ==
    pf_init_helper(stack_init, threshold_std, mu_min)

\* the loop of maximize: p is a slot of the buffer, i the walking index
RECURSIVE maximize_loop(_, _, _, _, _)
maximize_loop(pf, acc, p, m, i) ==
    IF DGe(DAdd(m, slot(pf.curves, p).m), pf.threshold_llr)
    THEN IF DGe(m, pf.threshold_llr)
         THEN [pf EXCEPT !.change =
                  [significance_llr |-> m,
                   offset |-> acc.t - slot(pf.curves, p).t]]
         ELSE LET j == IF i = 0 THEN pf.curves.capacity ELSE i - 1
              IN  maximize_loop(pf, acc, j,
                                curve_max(slot(pf.curves, j), acc), j)
    ELSE pf

maximize(pf, p, acc) ==
    maximize_loop(pf, acc, p, DSub(acc.m, slot(pf.curves, p).m),
                  pf.curves.head)

\* the prune loop of step_helper; p is the slot at the head of the stack.
\* On an empty stack the assertion of stack_peek ends the loop.
RECURSIVE prune(_, _)
prune(st, acc) ==
    IF /\ ~stack_empty(st)
       /\ curve_dominate(slot(st, st.head), slot(st, stack_peek(st)), acc) < 0
    THEN prune(stack_pop(st), acc)
    ELSE st

\* the assertions of stack_peek and stack_pop along the prune loop: TRUE
\* when none of them fails; st is the stack after the first pop
RECURSIVE prune_asserts(_, _)
prune_asserts(st, acc) ==
    /\ ~stack_empty(st)
    /\ curve_dominate(slot(st, st.head), slot(st, stack_peek(st)), acc) < 0
         => prune_asserts(stack_pop(st), acc)

\* struct curve acc = { p->x + x_t, p->b + b_t, p->t + 1, p->m }
new_acc(p, x_t, b_t) ==
    [x |-> p.x + x_t, b |-> RAdd(p.b, b_t), t |-> p.t + 1, m |-> p.m]

\* (double)(acc.x - p->x) > f->mu_crit * (acc.b - p->b), db = acc.b - p->b
anomalous(dx, db, mu_crit) == MulGT(dx, mu_crit.d, db.d, mu_crit.n, db.n, 1)

\* the anomalous branch, acc.m already set; p is the curve at slot cs.head
step_helper_anomalous(pf, cs, p, acc) ==
    [maximize([pf EXCEPT !.curves = cs], cs.head, acc)
        EXCEPT !.curves = stack_push(stack_push(cs, p), acc)]

\* step_helper after the prune loop; p is the curve at slot cs.head
step_helper_pruned(pf, cs, p, acc) ==
    IF anomalous(acc.x - p.x, RSub(acc.b, p.b), pf.mu_crit)
    THEN step_helper_anomalous(
             pf, cs, p, [acc EXCEPT !.m = DAdd(p.m, curve_max(p, acc))])
    ELSE [pf EXCEPT !.curves =
             stack_push(stack_push(stack_reset(cs), TAIL_CURVE), NULL_CURVE)]

\* step_helper after the first pop; cs is the stack after the prune loop
step_helper_prune(pf, cs, acc) ==
    step_helper_pruned(pf, cs, slot(cs, cs.head), acc)

\* step_helper after the change is cleared; cs is the stack after the pop
step_helper_popped(pf, cs, acc) == step_helper_prune(pf, prune(cs, acc), acc)

step_helper_pop(pf, cs, x_t, b_t) ==
    step_helper_popped(pf, cs, new_acc(slot(cs, cs.head), x_t, b_t))

step_helper(pf, x_t, b_t) ==
    step_helper_pop([pf EXCEPT !.change = NO_CHANGE], stack_pop(pf.curves),
                    x_t, b_t)

\* the assertions of stack_pop and stack_peek in step_helper: TRUE when
\* none of them fails
step_helper_asserts(pf, x_t, b_t) ==
    /\ ~stack_empty(pf.curves)
    /\ prune_asserts(stack_pop(pf.curves),
                     new_acc(slot(stack_pop(pf.curves),
                                  stack_pop(pf.curves).head), x_t, b_t))

\* the assertion x > b of curve_max on the curve c
curve_max_asserts(c, acc) ==
    MulGT(acc.x - c.x, RSub(acc.b, c.b).d, 1, RSub(acc.b, c.b).n, 1, 1)

\* the assertions of curve_max along the loop of maximize: TRUE when none
\* of them fails
RECURSIVE maximize_asserts(_, _, _, _, _)
maximize_asserts(pf, acc, p, m, i) ==
    IF DGe(DAdd(m, slot(pf.curves, p).m), pf.threshold_llr)
         /\ ~DGe(m, pf.threshold_llr)
    THEN LET j == IF i = 0 THEN pf.curves.capacity ELSE i - 1
         IN  /\ curve_max_asserts(slot(pf.curves, j), acc)
             /\ maximize_asserts(pf, acc, j,
                                 curve_max(slot(pf.curves, j), acc), j)
    ELSE TRUE

\* the assertions of curve_max in step_helper after the prune loop left
\* the stack as cs, p being the curve at slot cs.head
step_helper_max_asserts(pf, cs, p, acc) ==
    anomalous(acc.x - p.x, RSub(acc.b, p.b), pf.mu_crit)
        => /\ curve_max_asserts(p, acc)
           /\ maximize_asserts([pf EXCEPT !.curves = cs], acc, cs.head,
                               curve_max(p, acc), cs.head)

\* the assertions of curve_max in a step on the count x_t and the
\* background b_t, cs being the stack after the first pop
step_max_asserts(pf, cs, x_t, b_t) ==
    step_helper_max_asserts(
        pf, prune(cs, new_acc(slot(cs, cs.head), x_t, b_t)),
        slot(prune(cs, new_acc(slot(cs, cs.head), x_t, b_t)),
             prune(cs, new_acc(slot(cs, cs.head), x_t, b_t)).head),
        new_acc(slot(cs, cs.head), x_t, b_t))

\* pf_triggered with >= in place of >
pf_triggered_nonneg(pf) == DGe(pf.change.significance_llr, 0)

pf_triggered(pf) == DGt(pf.change.significance_llr, 0)

\* what pf_step hands back after step_helper left the instance as g
pf_step_test(g) ==
    [f |-> g, trigflag |-> pf_triggered(g), err |-> PF_NO_ERRORS]

\* pf_step: the instance, the caller's flag and the error code on return
pf_step(pf, trigflag, x, b) ==
    IF pf.status.code = "TEST"
    THEN IF b.n <= 0 \/ x < 0
         THEN [f |-> [pf EXCEPT !.status = [code |-> "STOP",
                                  latest_error |-> PF_ERROR_INVALID_INPUT],
                                !.change = NO_CHANGE],
               trigflag |-> FALSE,
               err |-> PF_ERROR_INVALID_INPUT]
         ELSE pf_step_test(step_helper(pf, x, b))
    ELSE [f |-> pf, trigflag |-> FALSE, err |-> pf.status.latest_error]

pf_get_change(pf) ==
    [significance_std |-> Sqrt(DMul(2, pf.change.significance_llr)),
     offset |-> pf.change.offset]

pf_change2changepoint(c, t) ==
    [significance_std |-> c.significance_std,
     changepoint |-> (t - c.offset + 1) % SIZE_MOD,
     triggertime |-> t]

(***************************************************************************)
(* poissonfocusses.c: the count queue.                                     *)
(***************************************************************************)
PFS_NO_ERRORS == "PFS_NO_ERRORS"
PFS_ERROR_INVALID_ALLOCATION == "PFS_ERROR_INVALID_ALLOCATION"
PFS_ERROR_INVALID_INPUT == "PFS_ERROR_INVALID_INPUT"

\* the buffer has len + 1 slots; a slot nothing was written to reads as 0
queue_init(len) ==
    [head |-> 0, tail |-> 0, len |-> len, arr |-> [i \in 0 .. len |-> 0]]

queue_empty(q) == q.head = q.tail

queue_full(q) == (q.tail + 1) % (q.len + 1) = q.head

queue_enqueue(q, n) ==
    [q EXCEPT !.arr[q.tail] = n,
              !.tail = IF q.tail + 1 > q.len THEN 0 ELSE q.tail + 1]

\* the queue after the dequeue
queue_dequeue(q) ==
    [q EXCEPT !.head = IF q.head + 1 > q.len THEN 0 ELSE q.head + 1]

\* the newest count of the queue in place of the oldest
queue_front_newest(q) == q.arr[IF q.tail = 0 THEN q.len ELSE q.tail - 1]

\* the count queue_dequeue returns
queue_front(q) == q.arr[q.head]

(***************************************************************************)
(* poissonfocusses.c: struct pfs and its operations.                       *)
(***************************************************************************)
pfs_check_init_parameters(threshold_std, mu_min, alpha, m, sleep) ==
    IF \/ pf_check_init_parameters(threshold_std, mu_min)
             = PF_ERROR_INVALID_INPUT
       \/ alpha.n < 0
       \/ alpha.n > alpha.d
       \/ m < 1
       \/ sleep < 0
    THEN PFS_ERROR_INVALID_INPUT
    ELSE PFS_NO_ERRORS

\* init_helper with the countdown started at m in place of sleep + m
pfs_init_helper_no_sleep(focus, q, alpha, m, sleep) ==
    [focus |-> focus, queue |-> q, alpha |-> alpha, m |-> m,
     sleep |-> sleep, t |-> m, lambda_t |-> RI(0),
     status |-> [code |-> "COLLECT", latest_error |-> PFS_NO_ERRORS]]

\* lambda_t is not set by init_helper: it is first written by
\* set_initial_bkg and not read before; the model starts it at 0.
pfs_init_helper(focus, q, alpha, m, sleep) ==
    [focus |-> focus, queue |-> q, alpha |-> alpha, m |-> m,
     sleep |-> sleep, t |-> sleep + m, lambda_t |-> RI(0),
     status |-> [code |-> "COLLECT", latest_error |-> PFS_NO_ERRORS]]

pfs_init(threshold_std, mu_min, alpha, m, sleep) ==
    pfs_init_helper(pf_init(threshold_std, mu_min), queue_init(m),
                    alpha, m, sleep)

RECURSIVE queue_total(_, _)
queue_total(q, i) ==
    IF i = q.tail
    THEN 0
    ELSE q.arr[i] + queue_total(q, IF i + 1 > q.len THEN 0 ELSE i + 1)

set_initial_bkg(fs) ==
    [fs EXCEPT !.lambda_t = Rat(queue_total(fs.queue, fs.queue.head), fs.m)]

update_bkg(fs, x_t) ==
    RAdd(RMul(fs.alpha, RI(x_t)), RMul(RSub(RI(1), fs.alpha), fs.lambda_t))

\* triggered without the test on the offset
pfs_triggered_any(fs, focus_triggered) == focus_triggered

pfs_triggered(fs, focus_triggered) ==
    focus_triggered /\ pf_get_change(fs.focus).offset < fs.m

\* step_update without the dequeue
step_update_no_dequeue(fs, x_t) ==
    [fs EXCEPT !.lambda_t = update_bkg(fs, queue_front(fs.queue)),
               !.queue = queue_enqueue(fs.queue, x_t)]

\* step_update: the instance after it
step_update(fs, x_t) ==
    [fs EXCEPT !.lambda_t = update_bkg(fs, queue_front(fs.queue)),
               !.queue = queue_enqueue(queue_dequeue(fs.queue), x_t)]

\* the end of step_test, r being what pf_step handed back
step_test_focus(fs, r) ==
    [f |-> [fs EXCEPT !.focus = r.f],
     trigflag |-> pfs_triggered([fs EXCEPT !.focus = r.f], r.trigflag),
     err |-> r.err]

\* step_test after the background and the queue are updated;
\* focus_triggered is a local that pf_step always writes
step_test_updated(fs, x_t) ==
    step_test_focus(fs, pf_step(fs.focus, FALSE, x_t, fs.lambda_t))

\* step_test: the instance after it, the caller's flag and pf_step's error
step_test(fs, x_t) == step_test_updated(step_update(fs, x_t), x_t)

\* case TEST of pfs_step without the move to STOP
pfs_step_test_unlatched(r) ==
    IF r.err = PF_ERROR_INVALID_INPUT
    THEN [f |-> r.f, trigflag |-> r.trigflag,
          err |-> PFS_ERROR_INVALID_INPUT]
    ELSE [f |-> r.f, trigflag |-> r.trigflag, err |-> PFS_NO_ERRORS]

\* case TEST of pfs_step, r being what step_test handed back
pfs_step_test(r) ==
    IF r.err = PF_ERROR_INVALID_INPUT
    THEN [f |-> [r.f EXCEPT !.status =
                    [code |-> "STOP",
                     latest_error |-> PFS_ERROR_INVALID_INPUT]],
          trigflag |-> r.trigflag,
          err |-> PFS_ERROR_INVALID_INPUT]
    ELSE [f |-> r.f, trigflag |-> r.trigflag, err |-> PFS_NO_ERRORS]

\* case UPDATE of pfs_step after step_update and --f->t
pfs_step_update(fs) ==
    IF fs.t = 0 THEN [fs EXCEPT !.status.code = "TEST"] ELSE fs

\* case COLLECT of pfs_step after queue_enqueue and --f->t
pfs_step_collect(fs) ==
    IF fs.t = fs.sleep
    THEN [set_initial_bkg(fs) EXCEPT !.status.code =
             IF fs.sleep # 0 THEN "UPDATE" ELSE "TEST"]
    ELSE fs

decrement_t(fs) == [fs EXCEPT !.t = fs.t - 1]

\* case STOP of pfs_step that goes on counting down
pfs_step_stop_counting(fs, trigflag) ==
    [f |-> decrement_t(fs), trigflag |-> trigflag,
     err |-> fs.status.latest_error]

\* case STOP of pfs_step
pfs_step_stop(fs, trigflag) ==
    [f |-> fs, trigflag |-> trigflag, err |-> fs.status.latest_error]

\* pfs_step: the instance, the caller's flag and the error code on return
pfs_step(fs, trigflag, x_t) ==
    CASE fs.status.code = "TEST" -> pfs_step_test(step_test(fs, x_t))
      [] fs.status.code = "UPDATE" ->
           [f |-> pfs_step_update(decrement_t(step_update(fs, x_t))),
            trigflag |-> trigflag,
            err |-> PFS_NO_ERRORS]
      [] fs.status.code = "COLLECT" ->
           [f |-> pfs_step_collect(decrement_t(
                      [fs EXCEPT !.queue = queue_enqueue(fs.queue, x_t)])),
            trigflag |-> trigflag,
            err |-> PFS_NO_ERRORS]
      [] fs.status.code = "STOP" -> pfs_step_stop(fs, trigflag)

\* the choice of pfs_get_change with <= in place of <
pfs_filter_change_le(c, m) ==
    IF c.offset <= m THEN c ELSE [significance_std |-> 0, offset |-> 0]

\* the choice pfs_get_change makes on the change c of the inner FOCuS
pfs_filter_change(c, m) ==
    IF c.offset < m THEN c ELSE [significance_std |-> 0, offset |-> 0]

pfs_get_change(fs) == pfs_filter_change(pf_get_change(fs.focus), fs.m)

(***************************************************************************)
(* bft.c: the dead-detector bit array and struct bft.                      *)
(***************************************************************************)
BFT_NO_ERRORS == "BFT_NO_ERRORS"
BFT_ERROR_INVALID_ALLOCATION == "BFT_ERROR_INVALID_ALLOCATION"
BFT_ERROR_INVALID_INPUT == "BFT_ERROR_INVALID_INPUT"

\* bit k of an unsigned char
bit(byte, k) == (byte \div (2 ^ k)) % 2

\* bitarray_set with ^= in place of |=
bitarray_flip(bitarray, n) ==
    [bitarray EXCEPT ![n \div 8] =
        IF bit(bitarray[n \div 8], n % 8) = 1
        THEN bitarray[n \div 8] - 2 ^ (n % 8)
        ELSE bitarray[n \div 8] + 2 ^ (n % 8)]

bitarray_set(bitarray, n) ==
    [bitarray EXCEPT ![n \div 8] =
        IF bit(bitarray[n \div 8], n % 8) = 1
        THEN bitarray[n \div 8]
        ELSE bitarray[n \div 8] + 2 ^ (n % 8)]

RECURSIVE bitarray_count_byte(_, _, _)
bitarray_count_byte(byte, offset, maxoffset) ==
    IF offset < maxoffset
    THEN (byte % 2) + bitarray_count_byte(byte \div 2, offset + 1, maxoffset)
    ELSE 0

RECURSIVE bitarray_count_loop(_, _)
bitarray_count_loop(bitarray, i) ==
    IF i < BITARRAY_BYTE_SIZE
    THEN bitarray_count_byte(bitarray[i], 0,
                             IF i < BITARRAY_BYTE_SIZE - 1
                             THEN 8
                             ELSE DETECTORS_NUMBER % 8)
         + bitarray_count_loop(bitarray, i + 1)
    ELSE 0

\* bitarray_count counting the set bits in place of the unset ones
bitarray_count_set(bitarray) == bitarray_count_loop(bitarray, 0)

bitarray_count(bitarray) ==
    DETECTORS_NUMBER - bitarray_count_loop(bitarray, 0)

bft_check_init_parameters(threshold_std, mu_min, alpha, m, sleep, majority) ==
    IF \/ pfs_check_init_parameters(threshold_std, mu_min, alpha, m, sleep)
             = PFS_ERROR_INVALID_INPUT
       \/ majority < 1
       \/ majority > DETECTORS_NUMBER
    THEN BFT_ERROR_INVALID_INPUT
    ELSE BFT_NO_ERRORS

bft_init_helper(fs, threshold_std, mu_min, alpha, m, sleep, majority) ==
    [threshold_std |-> threshold_std, mu_min |-> mu_min, alpha |-> alpha,
     m |-> m, sleep |-> sleep, majority |-> majority,
     bitarray |-> [i \in 0 .. BITARRAY_BYTE_SIZE - 1 |-> 0],
     fs |-> fs]

bft_init(threshold_std, mu_min, alpha, m, sleep, majority) ==
    bft_init_helper(
        [i \in 0 .. DETECTORS_NUMBER - 1 |->
            pfs_init(threshold_std, mu_min, alpha, m, sleep)],
        threshold_std, mu_min, alpha, m, sleep, majority)

\* The loop of bft_step from detector i on. focusdes_triggered is the one
\* local flag handed to every detector's pfs_step in turn; steps collects
\* what each detector's pfs_step handed back during this call.
RECURSIVE bft_step_loop(_, _, _, _, _, _)
RECURSIVE bft_step_detector(_, _, _, _, _, _)
bft_step_loop(b, xs, i, focusdes_triggered, triggered_detectors, steps) ==
    IF i < DETECTORS_NUMBER
    THEN bft_step_detector(b, xs, i, triggered_detectors, steps,
                           pfs_step(b.fs[i], focusdes_triggered, xs[i]))
    ELSE [bft |-> b, triggered_detectors |-> triggered_detectors,
          steps |-> steps]

\* the body of the loop without its else: the flag is read after an error too
bft_step_detector_no_else(b, xs, i, triggered_detectors, steps, r) ==
    bft_step_loop(
        [b EXCEPT !.fs[i] = r.f,
                  !.bitarray = IF r.err = PFS_ERROR_INVALID_INPUT
                               THEN bitarray_set(b.bitarray, i)
                               ELSE b.bitarray],
        xs, i + 1, r.trigflag,
        IF r.trigflag THEN triggered_detectors + 1 ELSE triggered_detectors,
        Append(steps, [err |-> r.err, trigflag |-> r.trigflag]))

\* the body of the loop for detector i, r being what pfs_step handed back
bft_step_detector(b, xs, i, triggered_detectors, steps, r) ==
    IF r.err = PFS_ERROR_INVALID_INPUT
    THEN bft_step_loop(
             [b EXCEPT !.fs[i] = r.f,
                       !.bitarray = bitarray_set(b.bitarray, i)],
             xs, i + 1, r.trigflag, triggered_detectors,
             Append(steps, [err |-> r.err, trigflag |-> r.trigflag]))
    ELSE bft_step_loop(
             [b EXCEPT !.fs[i] = r.f],
             xs, i + 1, r.trigflag,
             IF r.trigflag
             THEN triggered_detectors + 1
             ELSE triggered_detectors,
             Append(steps, [err |-> r.err, trigflag |-> r.trigflag]))

\* the end of bft_step with > in place of >=
bft_step_return_strict(majority, r) ==
    [bft |-> r.bft,
     got_trigger |-> r.triggered_detectors > majority,
     err |-> IF bitarray_count(r.bft.bitarray) < majority
             THEN BFT_ERROR_INVALID_INPUT
             ELSE BFT_NO_ERRORS,
     steps |-> r.steps]

\* the end of bft_step, r being the outcome of the loop
bft_step_return(majority, r) ==
    [bft |-> r.bft,
     got_trigger |-> r.triggered_detectors >= majority,
     err |-> IF bitarray_count(r.bft.bitarray) < majority
             THEN BFT_ERROR_INVALID_INPUT
             ELSE BFT_NO_ERRORS,
     steps |-> r.steps]

\* bft_step: the instance, the caller's flag and the error code on return
bft_step(b, xs) ==
    bft_step_return(b.majority, bft_step_loop(b, xs, 0, FALSE, 0, <<>>))

bft_get_changes(b) ==
    [i \in 0 .. DETECTORS_NUMBER - 1 |-> pfs_get_change(b.fs[i])]

bft_changes2changepoints(c, t) ==
    [i \in 0 .. DETECTORS_NUMBER - 1 |-> pf_change2changepoint(c[i], t)]

(***************************************************************************)
(* The callers: inputs and parameters.                                     *)
(***************************************************************************)
Counts == -1 .. MaxCount

Bkgs == {Rat(k, 2) : k \in 0 .. MaxCount}

ThresholdStds == {RI(1)}

MuMins == {1, 2}

Alphas == {RI(0), Rat(1, 2), RI(1)}

NONE == [none |-> TRUE]

\* call is the record of the latest call of a step function: its number,
\* its inputs, the caller's flag before (flag_in) and after (flag) it, the
\* error code it returned, the status it found the instance in (before),
\* and whether a call before it left a change behind (seen).
NoCall ==
    [n |-> 0, x |-> 0, b |-> RI(0), flag_in |-> FALSE, flag |-> FALSE,
     err |-> "NONE", before |-> "NONE", seen |-> FALSE]

InitPf ==
    /\ api = "pf"
    /\ \E th \in ThresholdStds, mu \in MuMins : f = pf_init(th, mu)
    /\ s = NONE
    /\ bft = NONE
    /\ call = NoCall
    /\ drv = NONE

\* one call of pf_step by the caller, whose flag holds fl before it
PfStep ==
    /\ api = "pf"
    /\ call.n < MaxSteps
    /\ \E x \in Counts, b \in Bkgs, fl \in BOOLEAN :
          \E r \in {pf_step(f, fl, x, b)} :
              /\ f' = r.f
              /\ call' = [n |-> call.n + 1, x |-> x, b |-> b, flag_in |-> fl,
                          flag |-> r.trigflag, err |-> r.err,
                          before |-> f.status.code,
                          seen |-> call.seen
                                     \/ pf_get_change(f).significance_std > 0]
    /\ UNCHANGED <<api, s, bft, drv>>

InitPfs ==
    /\ api = "pfs"
    /\ f = NONE
    /\ \E th \in ThresholdStds, mu \in MuMins, al \in Alphas,
          m \in 1 .. MaxM, sl \in 0 .. MaxSleep :
          s = pfs_init(th, mu, al, m, sl)
    /\ bft = NONE
    /\ call = NoCall
    /\ drv = NONE

\* one call of pfs_step by the caller, whose flag holds fl before it
PfsStep ==
    /\ api = "pfs"
    /\ call.n < MaxSteps
    /\ \E x \in Counts, fl \in BOOLEAN :
          \E r \in {pfs_step(s, fl, x)} :
              /\ s' = r.f
              /\ call' = [n |-> call.n + 1, x |-> x, b |-> s'.lambda_t,
                          flag_in |-> fl, flag |-> r.trigflag, err |-> r.err,
                          before |-> s.status.code,
                          seen |-> call.seen
                                     \/ pfs_get_change(s).significance_std > 0]
    /\ UNCHANGED <<api, f, bft, drv>>

Init == InitPf \/ InitPfs

Next == PfStep \/ PfsStep

Spec == Init /\ [][Next]_vars

\* the counts fed to the detectors of a BFT
BftCounts == {0, MaxCount + 1}

\* the window lengths a BFT is built with
BftMs == {1, 2}

Detectors == 0 .. DETECTORS_NUMBER - 1

\* the arrays xs handed to bft_step: the last two detectors see the same count
BftInputs ==
    {xs \in [Detectors -> BftCounts] :
        xs[DETECTORS_NUMBER - 2] = xs[DETECTORS_NUMBER - 1]}

\* call for a BFT: the inputs, got_trigger (flag) and the error code of the
\* latest bft_step, the error code of the call before it (before),
\* what each detector's pfs_step handed back during the call (steps), and
\* the detectors that were in STOP when the call was made (dead)
NoBftCall ==
    [n |-> 0, x |-> <<>>, flag |-> FALSE, err |-> "NONE", before |-> "NONE",
     steps |-> <<>>, dead |-> {}]

\* the detectors of the BFT b that are in STOP
DeadDetectors(b) == {i \in Detectors : b.fs[i].status.code = "STOP"}

InitBft ==
    /\ api = "bft"
    /\ f = NONE
    /\ s = NONE
    /\ \E th \in ThresholdStds, m \in BftMs, mj \in 1 .. DETECTORS_NUMBER :
          bft = bft_init(th, 1, Rat(1, 2), m, 0, mj)
    /\ call = NoBftCall
    /\ drv = NONE

\* one call of bft_step; call.steps keeps, for each detector, what its
\* own pfs_step handed back during this call
BftStep ==
    /\ api = "bft"
    /\ call.n < MaxBftSteps
    /\ \E xs \in BftInputs :
          \E r \in {bft_step(bft, xs)} :
              /\ bft' = r.bft
              /\ call' = [n |-> call.n + 1, x |-> xs, flag |-> r.got_trigger,
                          err |-> r.err, before |-> call.err,
                          steps |-> r.steps, dead |-> DeadDetectors(bft)]
    /\ UNCHANGED <<api, f, s, drv>>

NextBft == BftStep

SpecBft == InitBft /\ [][NextBft]_vars

(***************************************************************************)
(* The offline drivers pf_interface, pfs_interface and bft_interface: one  *)
(* action per iteration of the loop, one for the code after the loop.      *)
(* drv.got_trigger is the driver's local flag: pf_interface and            *)
(* pfs_interface declare it without a value, bft_interface sets it false.  *)
(***************************************************************************)
NewDrv(len, err, got_trigger) ==
    [pc |-> "loop", t |-> 0, len |-> len, err |-> err,
     got_trigger |-> got_trigger, cp |-> NONE]

InitPfInterface ==
    /\ api = "pf_interface"
    /\ \E th \in ThresholdStds, mu \in MuMins : f = pf_init(th, mu)
    /\ s = NONE
    /\ bft = NONE
    /\ call = NoCall
    /\ \E len \in 0 .. MaxLen, g \in BOOLEAN :
          drv = NewDrv(len, PF_NO_ERRORS, g)

InitPfsInterface ==
    /\ api = "pfs_interface"
    /\ f = NONE
    /\ \E th \in ThresholdStds, mu \in MuMins, al \in Alphas,
          m \in 1 .. MaxM, sl \in 0 .. MaxSleep :
          s = pfs_init(th, mu, al, m, sl)
    /\ bft = NONE
    /\ call = NoCall
    /\ \E len \in 0 .. MaxLen, g \in BOOLEAN :
          drv = NewDrv(len, PFS_NO_ERRORS, g)

InitBftInterface ==
    /\ api = "bft_interface"
    /\ f = NONE
    /\ s = NONE
    /\ \E th \in ThresholdStds, m \in BftMs, mj \in 1 .. DETECTORS_NUMBER :
          bft = bft_init(th, 1, Rat(1, 2), m, 0, mj)
    /\ call = NoBftCall
    /\ \E len \in 0 .. MaxBftSteps : drv = NewDrv(len, BFT_NO_ERRORS, FALSE)

\* the driver's locals after one iteration that handed back err and flag
AfterIteration(err, flag, invalid) ==
    [drv EXCEPT !.err = err,
                !.got_trigger = flag,
                !.pc = IF err = invalid \/ flag THEN "break" ELSE "loop",
                !.t = IF err = invalid \/ flag THEN drv.t ELSE drv.t + 1]

PfInterfaceStep ==
    /\ api = "pf_interface"
    /\ drv.pc = "loop"
    /\ drv.t < drv.len
    /\ \E x \in Counts, b \in Bkgs :
          \E r \in {pf_step(f, drv.got_trigger, x, b)} :
              /\ f' = r.f
              /\ drv' = AfterIteration(r.err, r.trigflag,
                                       PF_ERROR_INVALID_INPUT)
              /\ call' = [n |-> call.n + 1, x |-> x, b |-> b,
                          flag_in |-> drv.got_trigger, flag |-> r.trigflag,
                          err |-> r.err, before |-> f.status.code,
                          seen |-> FALSE]
    /\ UNCHANGED <<api, s, bft>>

PfsInterfaceStep ==
    /\ api = "pfs_interface"
    /\ drv.pc = "loop"
    /\ drv.t < drv.len
    /\ \E x \in Counts :
          \E r \in {pfs_step(s, drv.got_trigger, x)} :
              /\ s' = r.f
              /\ drv' = AfterIteration(r.err, r.trigflag,
                                       PFS_ERROR_INVALID_INPUT)
              /\ call' = [n |-> call.n + 1, x |-> x, b |-> s'.lambda_t,
                          flag_in |-> drv.got_trigger, flag |-> r.trigflag,
                          err |-> r.err, before |-> s.status.code,
                          seen |-> FALSE]
    /\ UNCHANGED <<api, f, bft>>

BftInterfaceStep ==
    /\ api = "bft_interface"
    /\ drv.pc = "loop"
    /\ drv.t < drv.len
    /\ \E xs \in BftInputs :
          \E r \in {bft_step(bft, xs)} :
              /\ bft' = r.bft
              /\ drv' = AfterIteration(r.err, r.got_trigger,
                                       BFT_ERROR_INVALID_INPUT)
              /\ call' = [n |-> call.n + 1, x |-> xs, flag |-> r.got_trigger,
                          err |-> r.err, before |-> call.err,
                          steps |-> r.steps, dead |-> DeadDetectors(bft)]
    /\ UNCHANGED <<api, f, s>>

\* the time handed to change2changepoint: t == len ? t - 1 : t
ReturnTime(t, len) == IF t = len THEN (t - 1) % SIZE_MOD ELSE t

\* the code after the loop: the changepoint(s) written to the caller
InterfaceReturn ==
    /\ api \in {"pf_interface", "pfs_interface", "bft_interface"}
    /\ drv.pc = "break" \/ (drv.pc = "loop" /\ drv.t = drv.len)
    /\ \E t \in {ReturnTime(drv.t, drv.len)} :
          drv' = [drv EXCEPT
                     !.pc = "done",
                     !.cp = CASE api = "pf_interface" ->
                                   pf_change2changepoint(pf_get_change(f), t)
                              [] api = "pfs_interface" ->
                                   pf_change2changepoint(pfs_get_change(s), t)
                              [] api = "bft_interface" ->
                                   bft_changes2changepoints(
                                       bft_get_changes(bft), t)]
    /\ UNCHANGED <<api, f, s, bft, call>>

InitDrv == InitPfInterface \/ InitPfsInterface \/ InitBftInterface

NextDrv ==
    \/ PfInterfaceStep
    \/ PfsInterfaceStep
    \/ BftInterfaceStep
    \/ InterfaceReturn

SpecDrv == InitDrv /\ [][NextDrv]_vars

(***************************************************************************)
(* pfs_interface run over an all-zero series: xs[t] = 0 at every index.     *)
(***************************************************************************)
InitZeros ==
    /\ api = "pfs_interface"
    /\ f = NONE
    /\ \E th \in ThresholdStds, mu \in MuMins, al \in Alphas,
          m \in 1 .. MaxZerosM, sl \in 0 .. MaxSleep :
          s = pfs_init(th, mu, al, m, sl)
    /\ bft = NONE
    /\ call = NoCall
    /\ \E len \in 0 .. MaxZerosLen, g \in BOOLEAN :
          drv = NewDrv(len, PFS_NO_ERRORS, g)

\* one iteration of the loop of pfs_interface, xs[t] being 0
ZerosStep ==
    /\ api = "pfs_interface"
    /\ drv.pc = "loop"
    /\ drv.t < drv.len
    /\ \E r \in {pfs_step(s, drv.got_trigger, 0)} :
          /\ s' = r.f
          /\ drv' = AfterIteration(r.err, r.trigflag, PFS_ERROR_INVALID_INPUT)
          /\ call' = [n |-> call.n + 1, x |-> 0, b |-> s'.lambda_t,
                      flag_in |-> drv.got_trigger, flag |-> r.trigflag,
                      err |-> r.err, before |-> s.status.code,
                      seen |-> FALSE]
    /\ UNCHANGED <<api, f, bft>>

NextZeros == ZerosStep \/ InterfaceReturn

SpecZeros == InitZeros /\ [][NextZeros]_vars

(***************************************************************************)
(* Allocation. The heap h is the set of live blocks (live), the serial     *)
(* number of the next malloc (next), the serial number of the malloc that  *)
(* fails (fail, 0 when none does), whether a malloc has failed (failed)    *)
(* and whether free was handed a block that is not live (bad).  An object  *)
(* is a record of its own block (self) and of the objects it points to;    *)
(* the result of an allocating function is the heap h and the pointer p.   *)
(***************************************************************************)
NULL == [null |-> TRUE]

malloc(h, kind) ==
    IF h.next = h.fail
    THEN [h |-> [h EXCEPT !.next = h.next + 1, !.failed = TRUE], p |-> NULL]
    ELSE [h |-> [h EXCEPT !.next = h.next + 1,
                          !.live = h.live \cup {[kind |-> kind,
                                                  id |-> h.next]}],
          p |-> [kind |-> kind, id |-> h.next]]

free(h, p) ==
    IF p = NULL
    THEN h
    ELSE IF p \in h.live
         THEN [h EXCEPT !.live = h.live \ {p}]
         ELSE [h EXCEPT !.bad = TRUE]

\* stack_init after both mallocs: st the struct, r the malloc of the buffer
stack_alloc_buffer(st, r) ==
    IF r.p = NULL
    THEN [h |-> free(r.h, st), p |-> NULL]
    ELSE [h |-> r.h, p |-> [self |-> st, arr |-> r.p]]

\* stack_init after the malloc r of the struct
stack_alloc_struct(r) ==
    IF r.p = NULL
    THEN [h |-> r.h, p |-> NULL]
    ELSE stack_alloc_buffer(r.p, malloc(r.h, "curve_buffer"))

\* the allocations of stack_init
stack_alloc(h) == stack_alloc_struct(malloc(h, "stack"))

stack_terminate(h, st) ==
    IF st = NULL THEN free(h, st) ELSE free(free(h, st.arr), st.self)

\* pf_init after its mallocs: pf the struct, r the outcome of stack_init
pf_alloc_curves(pf, r) ==
    IF r.p = NULL
    THEN [h |-> free(r.h, pf), p |-> NULL,
          err |-> PF_ERROR_INVALID_ALLOCATION]
    ELSE [h |-> r.h, p |-> [self |-> pf, curves |-> r.p],
          err |-> PF_NO_ERRORS]

\* pf_init after the malloc r of the struct
pf_alloc_struct(r) ==
    IF r.p = NULL
    THEN [h |-> r.h, p |-> NULL, err |-> PF_ERROR_INVALID_ALLOCATION]
    ELSE pf_alloc_curves(r.p, stack_alloc(r.h))

\* the allocations of pf_init, its parameters being valid
pf_alloc(h) == pf_alloc_struct(malloc(h, "pf"))

pf_terminate(h, pf) ==
    IF pf = NULL
    THEN free(h, pf)
    ELSE free(stack_terminate(h, pf.curves), pf.self)

\* queue_init after both mallocs: q the struct, r the malloc of the buffer
queue_alloc_buffer(q, r) ==
    IF r.p = NULL
    THEN [h |-> free(r.h, q), p |-> NULL]
    ELSE [h |-> r.h, p |-> [self |-> q, arr |-> r.p]]

\* queue_init after the malloc r of the struct
queue_alloc_struct(r) ==
    IF r.p = NULL
    THEN [h |-> r.h, p |-> NULL]
    ELSE queue_alloc_buffer(r.p, malloc(r.h, "count_buffer"))

\* the allocations of queue_init
queue_alloc(h) == queue_alloc_struct(malloc(h, "queue"))

queue_terminate(h, q) ==
    IF q = NULL THEN free(h, q) ELSE free(free(h, q.arr), q.self)

\* pfs_init with its failure path freeing the struct alone
pfs_alloc_focus_leaky(fs, q, r) ==
    IF r.err = PF_ERROR_INVALID_ALLOCATION
    THEN [h |-> free(r.h, fs), p |-> NULL,
          err |-> PFS_ERROR_INVALID_ALLOCATION]
    ELSE [h |-> r.h, p |-> [self |-> fs, queue |-> q, focus |-> r.p],
          err |-> PFS_NO_ERRORS]

\* pfs_init after pf_init: fs the struct, q the queue, r the outcome of
\* pf_init
pfs_alloc_focus(fs, q, r) ==
    IF r.err = PF_ERROR_INVALID_ALLOCATION
    THEN [h |-> queue_terminate(free(r.h, fs), q), p |-> NULL,
          err |-> PFS_ERROR_INVALID_ALLOCATION]
    ELSE [h |-> r.h, p |-> [self |-> fs, queue |-> q, focus |-> r.p],
          err |-> PFS_NO_ERRORS]

\* pfs_init after queue_init: fs the struct, r the outcome of queue_init
pfs_alloc_queue(fs, r) ==
    IF r.p = NULL
    THEN [h |-> free(r.h, fs), p |-> NULL,
          err |-> PFS_ERROR_INVALID_ALLOCATION]
    ELSE pfs_alloc_focus(fs, r.p, pf_alloc(r.h))

\* pfs_init after the malloc r of the struct
pfs_alloc_struct(r) ==
    IF r.p = NULL
    THEN [h |-> r.h, p |-> NULL, err |-> PFS_ERROR_INVALID_ALLOCATION]
    ELSE pfs_alloc_queue(r.p, queue_alloc(r.h))

\* the allocations of pfs_init, its parameters being valid
pfs_alloc(h) == pfs_alloc_struct(malloc(h, "pfs"))

pfs_terminate(h, fs) ==
    IF fs = NULL
    THEN free(h, fs)
    ELSE free(pf_terminate(queue_terminate(h, fs.queue), fs.focus), fs.self)

\* bft_init, the loop that terminates fs[j], j = i - 1 down to 0, after the
\* init of detector i failed; fs is the sequence of the instances built
RECURSIVE bft_alloc_unwind(_, _, _)
bft_alloc_unwind(h, fs, j) ==
    IF j >= 0
    THEN bft_alloc_unwind(pfs_terminate(h, fs[j + 1]), fs, j - 1)
    ELSE h

\* bft_init, the loop that builds the detectors, from detector i on
RECURSIVE bft_alloc_loop(_, _, _, _)
RECURSIVE bft_alloc_detector(_, _, _, _)
bft_alloc_loop(h, b, fs, i) ==
    IF i < DETECTORS_NUMBER
    THEN bft_alloc_detector(b, fs, i, pfs_alloc(h))
    ELSE [h |-> h, p |-> [self |-> b, fs |-> fs], err |-> BFT_NO_ERRORS]

\* the body of that loop for detector i, r being the outcome of pfs_init
bft_alloc_detector(b, fs, i, r) ==
    IF r.p = NULL
    THEN [h |-> bft_alloc_unwind(free(r.h, b), fs, i - 1), p |-> NULL,
          err |-> BFT_ERROR_INVALID_ALLOCATION]
    ELSE bft_alloc_loop(r.h, b, Append(fs, r.p), i + 1)

\* bft_init after the malloc r of the struct
bft_alloc_struct(r) ==
    IF r.p = NULL
    THEN [h |-> r.h, p |-> NULL, err |-> BFT_ERROR_INVALID_ALLOCATION]
    ELSE bft_alloc_loop(r.h, r.p, <<>>, 0)

\* the allocations of bft_init, its parameters being valid
bft_alloc(h) == bft_alloc_struct(malloc(h, "bft"))

\* the loop of bft_terminate from detector i on
RECURSIVE bft_terminate_loop(_, _, _)
bft_terminate_loop(h, b, i) ==
    IF i < DETECTORS_NUMBER
    THEN bft_terminate_loop(free(h, b.fs[i + 1].self), b, i + 1)
    ELSE h

bft_terminate(h, b) ==
    IF b = NULL THEN free(h, b) ELSE free(bft_terminate_loop(h, b, 0), b.self)

(***************************************************************************)
(* A caller that builds and tears down instances, holding one handle at a  *)
(* time; drv is the heap and the handle, call the latest call: the heap    *)
(* before it (before) and the blocks that the init which built the handle  *)
(* left allocated (owned).                                                 *)
(***************************************************************************)
\* the heap before a call in which the k-th malloc fails (none when k = 0)
Failing(h, k) ==
    [h EXCEPT !.fail = IF k = 0 THEN 0 ELSE h.next + k - 1, !.failed = FALSE]

InitHeap ==
    /\ api = "heap"
    /\ f = NONE
    /\ s = NONE
    /\ bft = NONE
    /\ call = [n |-> 0, op |-> "none", err |-> "NONE", before |-> {},
               owned |-> {}]
    /\ drv = [h |-> [live |-> {}, next |-> 1, fail |-> 0, failed |-> FALSE,
                     bad |-> FALSE],
              kind |-> "none", handle |-> NULL]

\* the caller's state after an init of the given kind returned r
AfterInit(kind, r) ==
    /\ drv' = [h |-> r.h, kind |-> IF r.p = NULL THEN "none" ELSE kind,
               handle |-> r.p]
    /\ call' = [n |-> call.n + 1, op |-> kind, err |-> r.err,
                before |-> drv.h.live, owned |-> r.h.live \ drv.h.live]

PfInitCall ==
    /\ api = "heap"
    /\ drv.kind = "none"
    /\ call.n < MaxInits
    /\ \E k \in 0 .. MaxFailAt : AfterInit("pf", pf_alloc(Failing(drv.h, k)))
    /\ UNCHANGED <<api, f, s, bft>>

PfsInitCall ==
    /\ api = "heap"
    /\ drv.kind = "none"
    /\ call.n < MaxInits
    /\ \E k \in 0 .. MaxFailAt : AfterInit("pfs", pfs_alloc(Failing(drv.h, k)))
    /\ UNCHANGED <<api, f, s, bft>>

BftInitCall ==
    /\ api = "heap"
    /\ drv.kind = "none"
    /\ call.n < MaxInits
    /\ \E k \in 0 .. MaxFailAt : AfterInit("bft", bft_alloc(Failing(drv.h, k)))
    /\ UNCHANGED <<api, f, s, bft>>

\* pf_terminate, pfs_terminate or bft_terminate on the handle held
TerminateCall ==
    /\ api = "heap"
    /\ drv.kind # "none"
    /\ drv' = [h |-> CASE drv.kind = "pf" -> pf_terminate(drv.h, drv.handle)
                       [] drv.kind = "pfs" -> pfs_terminate(drv.h, drv.handle)
                       [] drv.kind = "bft" -> bft_terminate(drv.h, drv.handle),
               kind |-> "none", handle |-> NULL]
    /\ call' = [n |-> call.n, op |-> "terminate", err |-> drv.kind,
                before |-> drv.h.live, owned |-> call.owned]
    /\ UNCHANGED <<api, f, s, bft>>

NextHeap == PfInitCall \/ PfsInitCall \/ BftInitCall \/ TerminateCall

SpecHeap == InitHeap /\ [][NextHeap]_vars

(***************************************************************************)
(* Two FOCuS-SES built with the same parameters and stepped side by side,  *)
(* each on its own series of counts: s holds the two instances, call the   *)
(* counts passed to each so far and the phase each step found.             *)
(***************************************************************************)
PairCounts == {0, MaxCount}

InitPair ==
    /\ api = "pfs_pair"
    /\ f = NONE
    /\ \E th \in ThresholdStds, mu \in MuMins, al \in Alphas,
          m \in 1 .. MaxM, sl \in 0 .. MaxSleep :
          s = [a |-> pfs_init(th, mu, al, m, sl),
               b |-> pfs_init(th, mu, al, m, sl)]
    /\ bft = NONE
    /\ call = [n |-> 0, xa |-> << >>, xb |-> << >>,
               before_a |-> "COLLECT", before_b |-> "COLLECT",
               err_a |-> PFS_NO_ERRORS, err_b |-> PFS_NO_ERRORS]
    /\ drv = NONE

\* one call of pfs_step on each of the two instances
PairStep ==
    /\ api = "pfs_pair"
    /\ call.n < MaxPairSteps
    /\ \E x \in PairCounts, y \in PairCounts :
          \E ra \in {pfs_step(s.a, FALSE, x)}, rb \in {pfs_step(s.b, FALSE, y)} :
              /\ s' = [a |-> ra.f, b |-> rb.f]
              /\ call' = [n |-> call.n + 1,
                          xa |-> Append(call.xa, x),
                          xb |-> Append(call.xb, y),
                          before_a |-> s.a.status.code,
                          before_b |-> s.b.status.code,
                          err_a |-> ra.err, err_b |-> rb.err]
    /\ UNCHANGED <<api, f, bft, drv>>

NextPair == PairStep

SpecPair == InitPair /\ [][NextPair]_vars

(***************************************************************************)
(* A FOCuS stepped on a long series: the counts ramp up 1, 2, 3, ... on    *)
(* background 1 (no curve is pruned, the stack fills up, overflows and its *)
(* tail walks round the buffer) and from some step on are all 0 (the       *)
(* curves are pruned down to the sentinel); the last step of a series may  *)
(* come with the background +inf.  call.asserts tells whether the          *)
(* assertions of stack_pop and stack_peek held in every step so far.       *)
(***************************************************************************)
InitLong ==
    /\ api = "pf_long"
    /\ f = pf_init(RI(1), 1)
    /\ s = NONE
    /\ bft = NONE
    /\ call = [n |-> 0, x |-> 0, b |-> RI(0), phase |-> "ramp",
               asserts |-> TRUE, max_asserts |-> TRUE,
               err |-> PF_NO_ERRORS, flag |-> FALSE]
    /\ drv = NONE

\* one call of pf_step with the count x and the background b; a failed
\* assertion aborts the run inside the call: the instance is left as it
\* was and no more calls are made
LongStep(x, b, phase) ==
    /\ api = "pf_long"
    /\ call.n < MaxLongSteps
    /\ call.asserts
    /\ call.max_asserts
    /\ f.status.code = "TEST"
    /\ \E r \in {pf_step(f, FALSE, x, b)} :
          /\ f' = IF step_helper_asserts(f, x, b) THEN r.f ELSE f
          /\ call' = [n |-> call.n + 1, x |-> x, b |-> b, phase |-> phase,
                      asserts |-> step_helper_asserts(f, x, b),
                      max_asserts |->
                          step_max_asserts(f, stack_pop(f.curves), x, b),
                      err |-> r.err, flag |-> r.trigflag]
    /\ UNCHANGED <<api, s, bft, drv>>

RampStep == call.phase = "ramp" /\ LongStep(call.n + 1, RI(1), "ramp")

QuietStep == call.phase # "last" /\ LongStep(0, RI(1), "quiet")

\* the last step of a series comes with the background +inf
InfiniteStep ==
    /\ call.phase # "last"
    /\ \E x \in {0, 1} : LongStep(x, INFINITY, "last")

\* the background that brings the background accumulated since the oldest
\* curve of the stack to one less than the counts accumulated since it
diluting_bkg(st) ==
    RSub(RI(slot(st, stack_pop(st).head).x - slot(st, Above(st, st.tail)).x
            - 1),
         RSub(slot(st, stack_pop(st).head).b,
              slot(st, Above(st, st.tail)).b))

\* the last step of a series comes with the count 0 and a background so
\* large that the rate since the oldest curve is just above 1
DilutedStep ==
    /\ call.phase # "last"
    /\ diluting_bkg(f.curves).n > 0
    /\ LongStep(0, diluting_bkg(f.curves), "last")

NextLong == RampStep \/ QuietStep \/ InfiniteStep \/ DilutedStep

SpecLong == InitLong /\ [][NextLong]_vars

(***************************************************************************)
(* What the properties below read off a state.                             *)
(***************************************************************************)
IsPf == api = "pf"

IsPfs == api = "pfs"

\* the lifecycle status of the instance under test
Status == IF IsPf THEN f.status.code ELSE s.status.code

\* what get_change returns in the current state
Change == IF IsPf THEN pf_get_change(f) ELSE pfs_get_change(s)

NullChange == [significance_std |-> 0, offset |-> 0]

InvalidInput == {PF_ERROR_INVALID_INPUT, PFS_ERROR_INVALID_INPUT}

NoErrors == {PF_NO_ERRORS, PFS_NO_ERRORS}

\* the latest call found the instance in TEST and ran the test
SteppedInTest == call.n > 0 /\ call.before = "TEST"

\* the dead bit of detector i
DeadBit(b, i) == bit(b.bitarray[i \div 8], i % 8) = 1

\* the detectors whose pfs_step, during the latest bft_step, returned no
\* error and left a change of positive significance
TriggeredNow ==
    {i \in Detectors :
        /\ call.steps[i + 1].err = PFS_NO_ERRORS
        /\ pfs_get_change(bft.fs[i]).significance_std > 0}

Alive == {i \in Detectors : ~DeadBit(bft, i)}

(***************************************************************************)
(* Properties of pf_step and pfs_step (specification Spec).                *)
(***************************************************************************)

\* C1: once a step has returned INVALID_INPUT the instance is in STOP, and
\* from STOP every further step leaves it in STOP and returns INVALID_INPUT
\* again; it never comes back to TEST.
C1_StopIsAbsorbing ==
    /\ [](call.err \in InvalidInput => Status = "STOP")
    /\ [][Status = "STOP"
            => Status' = "STOP" /\ call'.err \in InvalidInput]_vars

\* C1 witness: a FOCuS-SES step made in STOP returned INVALID_INPUT
C1_Witness ==
    /\ IsPfs
    /\ call.before = "STOP"
    /\ call.err = PFS_ERROR_INVALID_INPUT
    /\ Status = "STOP"

\* C2: on every call that returns INVALID_INPUT the trigger flag is false on
\* return, whatever it held before the call, and get_change returns (0, 0).
C2_FlagClearedOnError ==
    call.err \in InvalidInput => (call.flag = FALSE /\ Change = NullChange)

\* C3: a step whose count is negative returns INVALID_INPUT and leaves the
\* instance in STOP, in whatever phase the step occurs.
C3_NegativeCountStops ==
    (call.n > 0 /\ call.x < 0)
        => (call.err \in InvalidInput /\ Status = "STOP")

\* C4: after each of the first sleep + m calls of pfs_step the trigger flag
\* handed back to the caller is false, whatever it held before the call.
C4_NoTriggerWhileCollecting ==
    (IsPfs /\ call.n >= 1 /\ call.n <= s.sleep + s.m) => call.flag = FALSE

\* C5: after a pf_step that sets the trigger flag the change has
\* 1 <= offset <= number of steps taken; after a pfs_step that sets the
\* trigger flag the change has 0 < offset < m.
C5_OffsetBounded ==
    /\ (IsPf /\ call.n > 0 /\ call.flag)
          => (Change.offset >= 1 /\ Change.offset <= call.n)
    /\ (IsPfs /\ SteppedInTest /\ call.flag)
          => (0 < Change.offset /\ Change.offset < s.m)

\* C5 witness: a FOCuS-SES step in TEST handed back a trigger
C5_Witness ==
    /\ IsPfs
    /\ SteppedInTest
    /\ call.flag
    /\ call.err = PFS_NO_ERRORS
    /\ Change.offset = 1
    /\ s.m = 2

\* C6: after every pf_step, and every pfs_step executed in TEST, the flag
\* is true exactly when get_change has a positive significance; a step that
\* finds no change leaves get_change at (0, 0); a trigger leaves the
\* instance in TEST.
C6_TriggerPerStep ==
    ((IsPf /\ call.n > 0) \/ (IsPfs /\ SteppedInTest))
        => /\ call.flag <=> Change.significance_std > 0
           /\ ~call.flag => Change = NullChange
           /\ call.flag => Status = "TEST"

\* C6 witness: a step in TEST that found no change, after an earlier step
\* had left one behind
C6_Witness ==
    /\ IsPfs
    /\ SteppedInTest
    /\ call.seen
    /\ call.err = PFS_NO_ERRORS
    /\ ~call.flag
    /\ Change = NullChange

(***************************************************************************)
(* Properties of bft_step (specification SpecBft).                         *)
(***************************************************************************)

\* C7: got_trigger is true exactly when the detectors that, on this same
\* call, returned no error and found a change number at least majority.
C7_MajorityVote ==
    (api = "bft" /\ call.n > 0)
        => (call.flag <=> Cardinality(TriggeredNow) >= bft.majority)

\* C7 witness: a bft_step raised a trigger, exactly majority detectors having
\* triggered, while a detector stopped before this call came right after a
\* triggering one and handed the shared flag back still true
C7_Witness ==
    /\ api = "bft"
    /\ call.flag
    /\ Cardinality(TriggeredNow) = bft.majority
    /\ \E i \in TriggeredNow :
          /\ i + 1 \in Detectors
          /\ call.steps[i + 2].err = PFS_ERROR_INVALID_INPUT
          /\ call.steps[i + 2].trigflag

C9_DeadBitSticky ==
    /\ [](api = "bft"
            => \A i \in Detectors :
                  DeadBit(bft, i) <=> bft.fs[i].status.code = "STOP")
    /\ [][\A i \in Detectors : DeadBit(bft, i) => DeadBit(bft', i)]_vars
    /\ [][call.err = BFT_ERROR_INVALID_INPUT
            => (call'.err = BFT_ERROR_INVALID_INPUT /\ ~call'.flag)]_vars

\* C9 witness: a bft_step made after one that had returned INVALID_INPUT,
\* with a detector already dead before the call and one still alive
C9_Witness ==
    /\ api = "bft"
    /\ call.before = BFT_ERROR_INVALID_INPUT
    /\ call.err = BFT_ERROR_INVALID_INPUT
    /\ ~call.flag
    /\ Alive # {}
    /\ Alive # Detectors

(***************************************************************************)
(* Properties of the offline drivers (specification SpecDrv).              *)
(***************************************************************************)

\* the changepoint (0, len + 1, len)
QuietChangepoint(len) ==
    [significance_std |-> 0, changepoint |-> len + 1, triggertime |-> len]

\* C10: a driver that ran over the whole series, no step returning an error
\* or a trigger, returns NO_ERRORS and the changepoint (0, len + 1, len).
C10_QuietRunChangepoint ==
    (drv.pc = "done" /\ drv.t = drv.len)
        => /\ drv.err \in NoErrors \cup {BFT_NO_ERRORS}
           /\ IF api = "bft_interface"
              THEN \A i \in Detectors : drv.cp[i] = QuietChangepoint(drv.len)
              ELSE drv.cp = QuietChangepoint(drv.len)

\* the changepoint (0, t + 1, t) of a run that failed at loop index t
ErrorChangepoint(t) ==
    [significance_std |-> 0, changepoint |-> t + 1, triggertime |-> t]

\* C11: a driver that returns INVALID_INPUT because the step at loop index t
\* failed returns (0, t + 1, t) for every changepoint, that is for each of
\* the N detectors in bft_interface.
C11_ErrorChangepoint ==
    (drv.pc = "done" /\ drv.err \in InvalidInput \cup {BFT_ERROR_INVALID_INPUT})
        => IF api = "bft_interface"
           THEN \A i \in Detectors : drv.cp[i] = ErrorChangepoint(drv.t)
           ELSE drv.cp = ErrorChangepoint(drv.t)

\* what get_change returns to a single-detector driver
DrvChange ==
    IF api = "pf_interface" THEN pf_get_change(f) ELSE pfs_get_change(s)

\* the driver left its loop at loop index drv.t because the flag was set
StoppedOnTrigger ==
    /\ api \in {"pf_interface", "pfs_interface"}
    /\ drv.pc = "done"
    /\ drv.t < drv.len
    /\ drv.err \in NoErrors
    /\ drv.got_trigger

\* C12: pf_interface or pfs_interface stopping on a trigger at loop index t
\* returns (significance_std, t - offset + 1, t) with significance_std > 0
\* and changepoint strictly less than triggertime.
C12_TriggerChangepoint ==
    StoppedOnTrigger
        => /\ drv.cp.significance_std = DrvChange.significance_std
           /\ drv.cp.changepoint = drv.t - DrvChange.offset + 1
           /\ drv.cp.triggertime = drv.t
           /\ drv.cp.significance_std > 0
           /\ drv.cp.changepoint < drv.cp.triggertime

\* C13: pfs_interface on the all-zero series of length 20 with m = 5 and
\* sleep = 0 has the background at 0 after the 5th count, fails with
\* INVALID_INPUT on the 6th count and returns the changepoint (0, 7, 6).
C13_AllZeros ==
    (api = "pfs_interface" /\ s.m = 5 /\ s.sleep = 0 /\ drv.len = 20)
        => /\ (drv.pc = "loop" /\ drv.t = 5)
                => (s.lambda_t = RI(0) /\ s.status.code = "TEST")
           /\ drv.pc = "done"
                => /\ drv.err = PFS_ERROR_INVALID_INPUT
                   /\ call.n = 6
                   /\ call.b = RI(0)
                   /\ drv.cp = ErrorChangepoint(6)

(***************************************************************************)
(* Properties of allocation and release (specification SpecHeap).          *)
(***************************************************************************)

AllocationErrors ==
    {PF_ERROR_INVALID_ALLOCATION, PFS_ERROR_INVALID_ALLOCATION,
     BFT_ERROR_INVALID_ALLOCATION}

\* C14: when an allocation fails during pf_init, pfs_init or bft_init, the
\* init returns a null handle with INVALID_ALLOCATION and the heap holds
\* exactly the blocks it held before the call, none freed twice.
C14_InitFailureReleasesAll ==
    (api = "heap" /\ call.op \in {"pf", "pfs", "bft"} /\ drv.h.failed)
        => /\ drv.handle = NULL
           /\ call.err \in AllocationErrors
           /\ drv.h.live = call.before
           /\ ~drv.h.bad

\* C14 witness: bft_init failed at its last malloc, the curve buffer of the
\* last detector, every earlier allocation having succeeded
C14_Witness ==
    /\ api = "heap"
    /\ call.op = "bft"
    /\ call.n = 1
    /\ drv.h.failed
    /\ drv.h.fail = 6 * DETECTORS_NUMBER + 1
    /\ drv.h.next = 6 * DETECTORS_NUMBER + 2
    /\ drv.h.live = {}

\* C15: after bft_terminate on a handle that bft_init returned, every block
\* that bft_init allocated has been released.
C15_BftTerminateReleasesAll ==
    (api = "heap" /\ call.op = "terminate" /\ call.err = "bft")
        => call.owned \cap drv.h.live = {}

(***************************************************************************)
(* Properties of the FOCuS-SES lifecycle and queue (specification Spec).   *)
(***************************************************************************)

\* the order of the phases
PhaseRank(code) ==
    CASE code = "COLLECT" -> 0
      [] code = "UPDATE" -> 1
      [] code = "TEST" -> 2
      [] code = "STOP" -> 3

\* C16: step number n of a FOCuS-SES finds it in COLLECT exactly when
\* n <= m, in UPDATE exactly when m < n <= m + sleep, in TEST (or, after an
\* error, STOP) exactly when n > sleep + m; the inner FOCuS changes only in
\* a step made in TEST, and the phase never moves backwards.
C16_Lifecycle ==
    /\ []((IsPfs /\ call.n >= 1)
            => /\ call.before = "COLLECT" <=> call.n <= s.m
               /\ call.before = "UPDATE"
                    <=> (s.m < call.n /\ call.n <= s.m + s.sleep)
               /\ call.before \in {"TEST", "STOP"}
                    <=> call.n > s.m + s.sleep
               /\ (call.before = "TEST" /\ call.err = PFS_NO_ERRORS)
                    => s.status.code = "TEST")
    /\ [][IsPfs => (s'.focus # s.focus => s.status.code = "TEST")]_vars
    /\ [][IsPfs => PhaseRank(s'.status.code) >= PhaseRank(s.status.code)]_vars

\* C16 witness: with m = 2 and sleep = 1 the fourth step is the first made
\* in TEST, and it stepped the inner FOCuS
C16_Witness ==
    /\ IsPfs
    /\ s.m = 2
    /\ s.sleep = 1
    /\ call.n = 4
    /\ call.before = "TEST"
    /\ call.err = PFS_NO_ERRORS
    /\ s.focus # pf_init(RI(1), 1)
    /\ s.focus # pf_init(RI(1), 2)

\* the number of counts a queue holds
QueueSize(q) == (q.tail + (q.len + 1) - q.head) % (q.len + 1)

\* C17: a step made in COLLECT enqueues on a queue that is not full; a step
\* made in UPDATE or TEST dequeues from a queue that is not empty and then
\* enqueues on a queue that is not full; once the initial background is
\* computed (the phase is past COLLECT) the queue is full and holds m counts
\* between any two steps.
C17_QueueContract ==
    /\ []((IsPfs /\ s.status.code # "COLLECT")
            => (queue_full(s.queue) /\ QueueSize(s.queue) = s.m))
    /\ [][(IsPfs /\ call'.n = call.n + 1)
            => /\ s.status.code = "COLLECT" => ~queue_full(s.queue)
               /\ s.status.code \in {"UPDATE", "TEST"}
                    => /\ ~queue_empty(s.queue)
                       /\ ~queue_full(queue_dequeue(s.queue))]_vars

\* C17 witness: a step in UPDATE or TEST with m = 2 has dequeued and
\* enqueued across the end of the buffer and left the queue full
C17_Witness ==
    /\ IsPfs
    /\ s.m = 2
    /\ call.before \in {"UPDATE", "TEST"}
    /\ s.queue.tail < s.queue.head
    /\ queue_full(s.queue)
    /\ QueueSize(s.queue) = 2

(***************************************************************************)
(* Properties of the delay line (specification SpecPair).                  *)
(***************************************************************************)

\* step number call.n + 1 of the instance fs on the counts xs, the last of
\* which is the count of this step: in UPDATE and TEST the count at the head
\* of the queue is the count of m steps earlier and the smoother is fed
\* with it; in TEST the inner FOCuS is stepped on the count of this step
DelayedBy_m(fs, fs2, xs) ==
    /\ fs.status.code \in {"UPDATE", "TEST"}
         => /\ Len(xs) > fs.m
            /\ fs.queue.arr[fs.queue.head] = xs[Len(xs) - fs.m]
            /\ fs2.lambda_t = update_bkg(fs, xs[Len(xs) - fs.m])
    /\ fs.status.code = "TEST"
         => fs2.focus = pf_step(fs.focus, FALSE, xs[Len(xs)], fs2.lambda_t).f

\* C18: in every UPDATE or TEST step number t the count dequeued and fed to
\* the smoother is the count of step t - m, and the count passed to the
\* inner FOCuS is the count of step t.
C18_DelayLine ==
    [][(api = "pfs_pair" /\ call'.n = call.n + 1)
          => /\ DelayedBy_m(s.a, s'.a, call'.xa)
             /\ DelayedBy_m(s.b, s'.b, call'.xb)]_vars

\* C18 witness: with m = 2 a step made in TEST was fed a count that differs
\* from the one it took out of the queue and from the one before it
C18_Witness ==
    /\ api = "pfs_pair"
    /\ s.a.m = 2
    /\ call.n = 4
    /\ call.before_a = "TEST"
    /\ call.err_a = PFS_NO_ERRORS
    /\ call.xa[2] # call.xa[4]
    /\ call.xa[3] # call.xa[2]

\* C19: when both runs make step t in TEST and their counts agree on steps
\* 1 .. t - m, the backgrounds handed to FOCuS at step t are equal.
C19_BackgroundIgnoresRecent ==
    (/\ api = "pfs_pair"
     /\ call.before_a = "TEST"
     /\ call.before_b = "TEST"
     /\ \A i \in 1 .. call.n - s.a.m : call.xa[i] = call.xb[i])
        => s.a.lambda_t = s.b.lambda_t

(***************************************************************************)
(* Properties of the curve stack over long runs (specification SpecLong).  *)
(***************************************************************************)

\* the number of curves the stack holds, the sentinel included
StackSize(st) ==
    (st.head + (st.capacity + 1) - st.tail) % (st.capacity + 1)

\* C20: in every pf_step with a count >= 0 and a background > 0, stack_pop
\* and stack_peek are executed on a stack that is not empty, and the
\* sentinel is at the bottom of the stack after the step: the prune loop
\* stopped at it and did not pop it.
C20_NoPopOnEmpty ==
    api = "pf_long"
        => /\ call.asserts
           /\ StackSize(f.curves) >= 2
           /\ slot(f.curves, f.curves.tail) = TAIL_CURVE

\* stack_peek on the stack st hands back the curve stack_pop would
PeekIsNextPop(st) ==
    ~stack_empty(st)
        => slot(st, stack_peek(st)) = slot(st, stack_pop(st).head)

\* C21: at every head/tail position the stack of a FOCuS reaches, between
\* two steps and at the first stack_peek of a step (after the first pop),
\* stack_peek on a non-empty stack returns the curve stack_pop would
\* return next.
C21_PeekIsTop ==
    (api = "pf_long" /\ call.asserts)
        => /\ PeekIsNextPop(f.curves)
           /\ PeekIsNextPop(stack_pop(f.curves))

\* the two bottom entries of the stack are TAIL and then NULL
TailThenNull(st) ==
    /\ StackSize(st) >= 2
    /\ slot(st, st.tail) = TAIL_CURVE
    /\ slot(st, Above(st, st.tail)) = NULL_CURVE

RECURSIVE CurvesFrom(_, _)
CurvesFrom(st, i) ==
    IF i = st.head THEN << >>
    ELSE <<slot(st, i)>> \o CurvesFrom(st, Above(st, i))

Curves(st) == CurvesFrom(st, st.tail)

\* C23: the stack never holds more than PF_MAXCURVES curves; a step that
\* pushes its new curve on a full stack (a ramp step that starts with
\* PF_MAXCURVES curves) drops the curve just above TAIL and nothing else,
\* leaves TAIL at the bottom, keeps the other curves in their order with
\* the new curve on top, returns NO_ERRORS and stays in TEST.
C23_DropOldest ==
    /\ []((api = "pf_long" /\ call.asserts)
            => StackSize(f.curves) <= PF_MAXCURVES)
    /\ [][(/\ api = "pf_long"
           /\ call'.phase = "ramp"
           /\ StackSize(f.curves) = PF_MAXCURVES)
             => /\ Len(Curves(f'.curves)) = PF_MAXCURVES
                /\ Curves(f'.curves)[1] = TAIL_CURVE
                /\ SubSeq(Curves(f'.curves), 2, PF_MAXCURVES - 1)
                     = SubSeq(Curves(f.curves), 3, PF_MAXCURVES)
                /\ Curves(f'.curves)[PF_MAXCURVES].t
                     = Curves(f.curves)[PF_MAXCURVES].t + 1
                /\ Curves(f'.curves)[PF_MAXCURVES].x
                     = Curves(f.curves)[PF_MAXCURVES].x + call'.x
                /\ call'.err = PF_NO_ERRORS
                /\ f'.status = [code |-> "TEST",
                                latest_error |-> PF_NO_ERRORS]]_vars

\* C23 witness: a ramp step pushed on a full stack whose head stood at the
\* last slot of the buffer, and the tail left slot 0
C23_Witness ==
    /\ api = "pf_long"
    /\ call.phase = "ramp"
    /\ call.err = PF_NO_ERRORS
    /\ f.curves.head = 0
    /\ f.curves.tail = 1
    /\ Len(Curves(f.curves)) = PF_MAXCURVES

\* the step of pf on the count x and the background b takes the branch
\* that is not anomalous: with p the curve the prune loop ends on,
\* acc.x - p.x > mu_crit * (acc.b - p.b) is false
NonAnomalous(pf, x, b) ==
    LET st == stack_pop(pf.curves)
        acc == new_acc(slot(st, st.head), x, b)
        cs == prune(st, acc)
        p == slot(cs, cs.head)
    IN  ~anomalous(acc.x - p.x, RSub(acc.b, p.b), pf.mu_crit)

\* C24: after every pf_step that takes the branch that is not anomalous
\* the stack holds exactly TAIL then NULL, whatever it held and wherever
\* its head and tail stood before, and no change is emitted: the flag is
\* false and get_change returns (0, 0).
C24_ResetLeavesTailNull ==
    [][(/\ api = "pf_long"
        /\ call'.n = call.n + 1
        /\ call'.asserts
        /\ NonAnomalous(f, call'.x, call'.b))
          => /\ Curves(f'.curves) = <<TAIL_CURVE, NULL_CURVE>>
             /\ ~call'.flag
             /\ call'.err = PF_NO_ERRORS
             /\ f'.change = NO_CHANGE
             /\ pf_get_change(f') = [significance_std |-> 0, offset |-> 0]]_vars

\* C24 witness: a step reset a stack that had overflowed and wrapped round
\* the buffer (slot 5 still holds a curve written after the wrap)
C24_Witness ==
    /\ api = "pf_long"
    /\ call.asserts
    /\ call.n > 2 * PF_MAXCURVES
    /\ Curves(f.curves) = <<TAIL_CURVE, NULL_CURVE>>
    /\ slot(f.curves, 5).t > PF_MAXCURVES

(***************************************************************************)
(* Properties of the prune loop and of maximize (specification Spec).      *)
(***************************************************************************)

\* (acc.x - p.x) * (next.b - p.b) - (next.x - p.x) * (acc.b - p.b) > 0
CrossProductPositive(p, next, acc) ==
    MulGT(acc.x - p.x, RSub(next.b, p.b).n, RSub(acc.b, p.b).d,
          next.x - p.x, RSub(acc.b, p.b).n, RSub(next.b, p.b).d)

\* at every test of the prune loop from the stack st on, the loop goes on
\* exactly when the cross product is positive
RECURSIVE PruneMatches(_, _)
PruneMatches(st, acc) ==
    stack_empty(st)
    \/ /\ (curve_dominate(slot(st, st.head), slot(st, stack_peek(st)), acc) < 0)
            <=> CrossProductPositive(slot(st, st.head),
                                     slot(st, stack_peek(st)), acc)
       /\ curve_dominate(slot(st, st.head), slot(st, stack_peek(st)), acc) < 0
            => PruneMatches(stack_pop(st), acc)

\* C25: in the prune loop of a step, with p the head curve, next the curve
\* below it and acc the accumulator, pruning goes on exactly when
\* (acc.x - p.x) * (next.b - p.b) - (next.x - p.x) * (acc.b - p.b) > 0,
\* the case where the expression is 0 included.
C25_PruneCondition ==
    [][(/\ api = "pf"
        /\ f.status.code = "TEST"
        /\ call'.n = call.n + 1
        /\ call'.err = PF_NO_ERRORS)
          => PruneMatches(stack_pop(f.curves),
                          new_acc(slot(f.curves, stack_pop(f.curves).head),
                                  call'.x, call'.b))]_vars

\* C26: in every sequence of valid pf_step calls each evaluation of
\* curve_max, from step_helper and from the walk of maximize, satisfies its
\* assertion x > b; maximize never evaluates the TAIL sentinel, also after
\* the stack has overflowed.
C26_CurveMaxAsserts ==
    api = "pf_long" => call.max_asserts

\* C27: pfs_interface leaves its loop before the end of the series only at
\* a step where pfs_step returned INVALID_INPUT or reported a trigger, that
\* is wrote true to the flag in a TEST step; a series whose steps raise no
\* error never stops it during the first sleep + m steps.
C27_LoopExit ==
    (api = "pfs_interface" /\ drv.pc = "break")
        => \/ drv.err = PFS_ERROR_INVALID_INPUT
           \/ /\ call.before = "TEST"
              /\ call.flag
              /\ drv.t >= s.sleep + s.m

\* pf_step on the instance pf in STOP hands back pf as it was, with its
\* latched error, for every count and background
PfStepInert(pf) ==
    \A x \in Counts, b \in Bkgs :
        /\ pf_step(pf, TRUE, x, b).f = pf
        /\ pf_step(pf, TRUE, x, b).err = pf.status.latest_error

\* C28: a step made in STOP changes nothing: pf_step leaves the curve
\* stack, the change and the latched error as they were, pfs_step leaves
\* the count queue, the smoothed rate, the countdown and the inner FOCuS as
\* they were; in a BFT, bft_step leaves a dead detector as it was while
\* every alive detector makes its own pfs_step on its own count.
C28_StopIsInert ==
    [][api = "bft"
         => \A i \in Detectors :
               IF bft.fs[i].status.code = "STOP"
               THEN /\ bft'.fs[i] = bft.fs[i]
                    /\ call'.steps[i + 1].err = bft.fs[i].status.latest_error
                    /\ bft.fs[i].focus.status.code = "STOP"
                    /\ PfStepInert(bft.fs[i].focus)
               ELSE bft'.fs[i] = pfs_step(bft.fs[i], FALSE, call'.x[i]).f]_vars

\* a bft_step was made with a detector in STOP, whose queue holds counts,
\* and a detector in TEST that the step moved on
C28_Witness ==
    /\ api = "bft"
    /\ \E i \in call.dead :
          /\ bft.fs[i].status.code = "STOP"
          /\ bft.fs[i].focus.status.code = "STOP"
          /\ queue_full(bft.fs[i].queue)
          /\ call.steps[i + 1].err = PFS_ERROR_INVALID_INPUT
    /\ \E j \in Detectors \ call.dead :
          /\ bft.fs[j].status.code = "TEST"
          /\ call.steps[j + 1].err = PFS_NO_ERRORS
          /\ call.x[j] > 0

\* C29: a FOCuS-SES initialised with m = 1 reports no trigger in any TEST
\* step, and pfs_get_change returns (0, 0) at every moment, whatever the
\* counts: every change the inner FOCuS finds has an offset of at least 1
\* and fails the test offset < m.
C29_WindowOneSilent ==
    (IsPfs /\ s.m = 1)
        => /\ pfs_get_change(s) = [significance_std |-> 0, offset |-> 0]
           /\ SteppedInTest => ~call.flag
           /\ pf_get_change(s.focus).significance_std > 0
                => pf_get_change(s.focus).offset >= 1

\* a TEST step of a FOCuS-SES with m = 1 in which the inner FOCuS found a
\* change, which the filter rejected
C29_Witness ==
    /\ IsPfs
    /\ s.m = 1
    /\ SteppedInTest
    /\ call.err = PFS_NO_ERRORS
    /\ pf_get_change(s.focus).significance_std > 0
    /\ pf_get_change(s.focus).offset = 1
    /\ ~call.flag

====
